---- MODULE Spec2Model ----
(***************************************************************************)
(* The perception-action loop of the web frontend (controller/web/app.py)  *)
(* and the model client adapter it calls (controller/models/apis.py).      *)
(*                                                                         *)
(* One ActionLogger (`logger`, app.py:66) is shared by every request       *)
(* handler and by every background task.  run_agent is modelled step by    *)
(* step: a step ends at each suspension point (the remote chat call, the   *)
(* one second sleep before each operation), so that the request handlers   *)
(* /api/stop and /api/feedback interleave with it as threads do.           *)
(***************************************************************************)
EXTENDS Integers, Sequences, FiniteSets, TLC

(***************************************************************************)
(* Bounds of the model.                                                    *)
(***************************************************************************)
\* how many environment events (a model call whose attempts fail and are
\* retried, a stop request, a feedback post) one behaviour of Spec contains
MaxFaults == 1
\* how many feedback posts one behaviour of SpecLogger contains
MaxFeedback == 2
\* depth of nested call_ollama_llava frames the interpreter allows before the
\* next call raises RecursionError (about 1000 in CPython, see apis.py:138)
RecursionLimit == 2
\* how many entries the logger harness (SpecLogger) appends
MaxLog == 3
\* how many stop requests one behaviour of SpecStop contains
MaxStops == 2
\* how many environment events one behaviour of SpecHistory contains, of
\* which the failing model calls are at most MaxFaults
MaxReasserts == 2

\* run_agent: max_loops = 10
max_loops == 10

Sessions == {1, 2}
\* the HTTP request handlers emit and log under task 0
Tasks == Sessions \cup {0}

None == "None"

EventNames == {"log", "session_started", "session_stopped", "agent_thinking",
               "llm_response", "action_executed", "objective_complete",
               "error", "session_ended", "feedback_received"}

VARIABLES
    actions,         \* logger.actions: the action log
    total_reward,    \* logger.total_reward
    current_session, \* the global current_session
    emitted,         \* socketio.emit: how often each task emitted each event
    os_calls,        \* the calls made on operating_system, in order
    origin,          \* for each entry of actions: the task, loop and batch position that appended it
    pc,              \* where each session's run_agent task stands
    loop_count,      \* run_agent: loop_count
    messages,        \* run_agent: messages, the conversation history
    operations,      \* run_agent: operations, what get_next_action returned
    idx,             \* run_agent: position of the for loop in operations
    depth,           \* nested call_ollama_llava frames of the current model call
    sent,            \* the history the last remote call of the current model call sent
    failed,          \* the failed attempts of the current model call: how each failed, what it had sent
    calls,           \* number of remote chat calls each session made
    stop_at,         \* the iteration a stop request allows to finish (-1: no stop requested)
    last_response,   \* HTTP status of the last request answered (0: none yet)
    faults           \* environment events so far

vars == <<actions, total_reward, current_session, emitted, os_calls, origin,
          pc, loop_count, messages, operations, idx, depth, sent, failed,
          calls, stop_at, last_response, faults>>

loggerVars == <<actions, total_reward, origin>>
agentVars == <<pc, loop_count, messages, operations, idx, depth, sent, failed, calls>>


(***************************************************************************)
(* Python values.                                                          *)
(***************************************************************************)
PyTrue == "True"
PyFalse == "False"

\* dict.get(key, default)
Get(d, key, default) == IF key \in DOMAIN d THEN d[key] ELSE default

\* the position in a TLA+ sequence (from 1) of Python's seq[i]: a negative i
\* counts from the end
PyIndex(seq, i) == IF i >= 0 THEN i + 1 ELSE Len(seq) + i + 1

(***************************************************************************)
(* ActionLogger                                                            *)
(***************************************************************************)
\* ActionLogger.log_action, with the reward added whatever success is
log_action_always_adds(acts, tot, action_type, details, success, reward) ==
    LET log_entry == [type |-> action_type, details |-> details,
                      success |-> success, reward |-> reward]
    IN [actions |-> Append(acts, log_entry),
        total_reward |-> tot + reward,
        entry |-> log_entry]

\* ActionLogger.log_action, with the reward added when success is truthy
\* (`if success:`)
log_action_if_truthy(acts, tot, action_type, details, success, reward) ==
    LET log_entry == [type |-> action_type, details |-> details,
                      success |-> success, reward |-> reward]
    IN [actions |-> Append(acts, log_entry),
        total_reward |-> IF success = PyTrue THEN tot + reward ELSE tot,
        entry |-> log_entry]

\* ActionLogger.log_action: the logger after the call, and the entry returned
log_action(acts, tot, action_type, details, success, reward) ==
    LET log_entry == [type |-> action_type, details |-> details,
                      success |-> success, reward |-> reward]
    IN [actions |-> Append(acts, log_entry),
        total_reward |-> IF success # None THEN tot + reward ELSE tot,
        entry |-> log_entry]

RECURSIVE CountSuccess(_, _)
\* sum(1 for a in acts if a['success'] == value)
CountSuccess(acts, value) ==
    IF acts = <<>> THEN 0
    ELSE (IF Head(acts).success = value THEN 1 ELSE 0) + CountSuccess(Tail(acts), value)

\* ActionLogger.get_summary counting as failed every entry that is not a
\* success (`if not a['success']`)
get_summary_unknown_failed(acts, tot) ==
    LET total == Len(acts)
        successful == CountSuccess(acts, PyTrue)
        failed_ == total - successful
    IN [total |-> total, successful |-> successful, failed |-> failed_,
        reward |-> tot,
        success_rate |-> IF total > 0 THEN <<successful * 100, total>> ELSE <<0, 1>>]

\* ActionLogger.get_summary.  success_rate, a float in the code, is the
\* fraction <<numerator, denominator>> of successful / total * 100, and the
\* number 0 is <<0, 1>>.
get_summary(acts, tot) ==
    LET total == Len(acts)
        successful == CountSuccess(acts, PyTrue)
        failed_ == CountSuccess(acts, PyFalse)
    IN [total |-> total, successful |-> successful, failed |-> failed_,
        reward |-> tot,
        success_rate |-> IF total > 0 THEN <<successful * 100, total>> ELSE <<0, 1>>]

\* GET /api/logs: what the handler answers in the current state
get_logs == [actions |-> actions, summary |-> get_summary(actions, total_reward)]

\* socketio.emit(name, ...) by task t
Emit(em, t, name) == [em EXCEPT ![<<t, name>>] = @ + 1]

\* logger.log_action(...) followed by socketio.emit('log', entry), as every
\* caller does; task t appends while in loop `loop` at batch position `pos`
Log(t, loop, pos, action_type, details, success, reward) ==
    LET r == log_action(actions, total_reward, action_type, details, success, reward)
    IN /\ actions' = r.actions
       /\ total_reward' = r.total_reward
       /\ origin' = Append(origin, [task |-> t, loop |-> loop, pos |-> pos])

(***************************************************************************)
(* The state after the module is loaded: app.py:26-31, 36-38, 66.          *)
(***************************************************************************)
Init ==
    /\ actions = <<>>
    /\ total_reward = 0
    /\ current_session = None
    /\ emitted = [k \in Tasks \X EventNames |-> 0]
    /\ os_calls = <<>>
    /\ origin = <<>>
    /\ pc = [s \in Sessions |-> "idle"]
    /\ loop_count = [s \in Sessions |-> 0]
    /\ messages = [s \in Sessions |-> <<>>]
    /\ operations = [s \in Sessions |-> [kind |-> "unset"]]
    /\ idx = [s \in Sessions |-> 0]
    /\ depth = [s \in Sessions |-> 0]
    /\ sent = [s \in Sessions |-> <<>>]
    /\ failed = [s \in Sessions |-> <<>>]
    /\ calls = [s \in Sessions |-> 0]
    /\ stop_at = [s \in Sessions |-> -1]
    /\ last_response = 0
    /\ faults = 0

(***************************************************************************)
(* Request handlers                                                        *)
(***************************************************************************)
\* POST /api/start.  An empty objective is answered 400 and an unreachable
\* Ollama 503, both before anything is changed.
start_session(s, objective, reachable) ==
    /\ pc[s] = "idle"
    /\ IF objective = "" \/ ~reachable
       THEN /\ last_response' = (IF objective = "" THEN 400 ELSE 503)
            /\ UNCHANGED <<actions, total_reward, origin, current_session,
                           emitted, os_calls, agentVars, stop_at, faults>>
       ELSE /\ Log(0, 0, 0, "SESSION_START", [objective |-> objective], None, 0)
            /\ emitted' = Emit(Emit(emitted, 0, "log"), 0, "session_started")
            /\ pc' = [pc EXCEPT ![s] = "init"]
            /\ last_response' = 200
            /\ UNCHANGED <<current_session, os_calls, loop_count, messages,
                           operations, idx, depth, sent, failed, calls,
                           stop_at, faults>>

\* the iteration of session s that is in flight, which a stop request lets
\* finish: none when the task stands at the top of the loop
InFlight(s) == IF pc[s] \in {"adapter", "chat", "exec"} THEN loop_count[s] + 1
               ELSE loop_count[s]

\* POST /api/stop
stop_session ==
    /\ current_session' = None
    /\ Log(0, 0, 0, "SESSION_STOP", <<>>, None, 0)
    /\ emitted' = Emit(Emit(emitted, 0, "log"), 0, "session_stopped")
    /\ stop_at' = [s \in Sessions |->
                     IF stop_at[s] = -1 /\ pc[s] \in {"loop", "adapter", "chat", "exec"}
                     THEN InFlight(s) ELSE stop_at[s]]
    /\ last_response' = 200
    /\ UNCHANGED <<os_calls, agentVars>>

\* the entry submit_feedback writes: success and reward overwritten
Amended(action, success) ==
    IF success = PyTrue
    THEN [action EXCEPT !.success = PyTrue, !.reward = 10]
    ELSE [action EXCEPT !.success = PyFalse, !.reward = -5]

\* what submit_feedback adds to logger.total_reward, were it to add nothing
\* when the entry already carries the reported success
FeedbackDelta_guarded(old, new) ==
    IF old.success = new.success THEN 0 ELSE new.reward

\* what submit_feedback adds to logger.total_reward (app.py:166), the entry
\* being `old` before and `new` after
FeedbackDelta(old, new) == new.reward

\* submit_feedback's test of the index: present and below len(logger.actions)
IndexAccepted(data) ==
    /\ "action_index" \in DOMAIN data
    /\ data.action_index < Len(actions)

\* POST /api/feedback with the JSON body `data`.  A body without action_index,
\* or with one >= len(logger.actions), is answered 400; an index below
\* -len(logger.actions) raises IndexError at line 155, before any write.
submit_feedback(data) ==
    /\ IF ~IndexAccepted(data)
       THEN /\ last_response' = 400
            /\ UNCHANGED <<actions, total_reward, origin, emitted>>
       ELSE IF PyIndex(actions, data.action_index) \notin 1..Len(actions)
       THEN /\ last_response' = 500
            /\ UNCHANGED <<actions, total_reward, origin, emitted>>
       ELSE LET i == PyIndex(actions, data.action_index)
                success == Get(data, "success", None)
                new == Amended(actions[i], success)
            IN /\ actions' = [actions EXCEPT ![i] = new]
               /\ total_reward' = total_reward + FeedbackDelta(actions[i], new)
               /\ emitted' = Emit(emitted, 0, "feedback_received")
               /\ last_response' = 200
               /\ UNCHANGED origin
    /\ UNCHANGED <<current_session, os_calls, agentVars, stop_at>>


(***************************************************************************)
(* What the remote model answers.  A response text either parses            *)
(* (json.loads, apis.py:117) to one of these batches or does not parse.     *)
(***************************************************************************)
Click(x, y) == [operation |-> "click", x |-> x, y |-> y]
Write(content) == [operation |-> "write", content |-> content]
Press(keys) == [operation |-> "press", keys |-> keys]
Done(summary) == [operation |-> "done", summary |-> summary]

Batches == { <<Click(100, 200)>>,
             <<Done("typed hello")>>,
             <<Write("hello"), Done("typed hello"), Press(<<"enter">>)>> }

\* operate_type = operation.get("operation", "").lower(); the model's tags
\* here are lower case already
operate_type(operation) == Get(operation, "operation", "")

(***************************************************************************)
(* call_ollama_llava                                                       *)
(***************************************************************************)
\* the user message appended before the remote call (apis.py:90-99)
vision_message(msgs) ==
    [role |-> "user",
     content |-> IF Len(msgs) = 1 THEN "user_first_message_prompt" ELSE "user_prompt",
     images |-> "screenshots/screenshot.png"]

\* messages[-1]["images"] = None (apis.py:110)
StripImage(msgs) == [msgs EXCEPT ![Len(msgs)].images = None]

\* run_agent's loop without an except branch: the exception ends the task
LoopError_dies(s) ==
    /\ pc' = [pc EXCEPT ![s] = "ended"]
    /\ depth' = [depth EXCEPT ![s] = 0]
    /\ UNCHANGED <<actions, total_reward, origin, emitted>>

\* the except branch of run_agent's loop with `continue` for `break`
LoopError_continues(s) ==
    /\ Log(s, loop_count[s], 0, "ERROR", [loop |-> loop_count[s]], PyFalse, -10)
    /\ emitted' = Emit(Emit(emitted, s, "log"), s, "error")
    /\ pc' = [pc EXCEPT ![s] = "loop"]
    /\ depth' = [depth EXCEPT ![s] = 0]

\* the except branch of run_agent's loop (app.py:306-313): the ERROR entry,
\* the error event, break
LoopError(s) ==
    /\ Log(s, loop_count[s], 0, "ERROR", [loop |-> loop_count[s]], PyFalse, -10)
    /\ emitted' = Emit(Emit(emitted, s, "log"), s, "error")
    /\ pc' = [pc EXCEPT ![s] = "after_loop"]
    /\ depth' = [depth EXCEPT ![s] = 0]

\* `return call_ollama_llava(messages, model)` in the except branch
\* (apis.py:130-138) after an attempt failed as `how`, the history being msgs.
\* One frame deeper each time; past the interpreter's limit the call raises
\* RecursionError, which every frame passes on (each is inside its own except
\* branch) up to run_agent's handler.  The first failure of a model call is
\* one of the behaviour's MaxFaults environment events; the attempts that
\* follow it in the same call may all fail.
Retry(s, how, msgs) ==
    /\ failed[s] = <<>> => faults < MaxFaults
    /\ faults' = IF failed[s] = <<>> THEN faults + 1 ELSE faults
    /\ failed' = [failed EXCEPT ![s] =
                    Append(@, [how |-> how,
                               history |-> IF how = "capture" THEN <<>> ELSE sent[s]])]
    /\ messages' = [messages EXCEPT ![s] = msgs]
    /\ IF depth[s] < RecursionLimit
       THEN /\ depth' = [depth EXCEPT ![s] = @ + 1]
            /\ pc' = [pc EXCEPT ![s] = "adapter"]
            /\ UNCHANGED <<actions, total_reward, origin, emitted>>
       ELSE LoopError(s)
    /\ UNCHANGED <<current_session, os_calls, loop_count, operations, idx,
                   sent, calls, stop_at, last_response>>

\* apis.py:45-100: client, screenshot, the user message appended, the request
\* sent.  `ok` is whether the steps before the append went through.
Prepare(s, ok) ==
    /\ pc[s] = "adapter"
    /\ IF ok
       THEN /\ messages' = [messages EXCEPT ![s] = Append(@, vision_message(@))]
            /\ sent' = [sent EXCEPT ![s] = messages'[s]]
            /\ calls' = [calls EXCEPT ![s] = @ + 1]
            /\ pc' = [pc EXCEPT ![s] = "chat"]
            /\ UNCHANGED <<actions, total_reward, origin, current_session,
                           emitted, os_calls, loop_count, operations, idx,
                           depth, failed, stop_at, last_response, faults>>
       ELSE Retry(s, "capture", messages[s])

\* ollama_client.chat raised something other than ollama.ResponseError (a
\* timeout, say): line 110 is not reached
ChatRaises(s) ==
    /\ pc[s] = "chat"
    /\ Retry(s, "chat", messages[s])

\* the assistant message appended before json.loads instead of after it
ChatMalformed_appends_first(s) ==
    /\ pc[s] = "chat"
    /\ Retry(s, "parse",
             Append(StripImage(messages[s]),
                    [role |-> "assistant", content |-> "malformed", images |-> None]))

\* the response text is not JSON: json.loads raises at line 117, after the
\* image was stripped and before the assistant message is appended
ChatMalformed(s) ==
    /\ pc[s] = "chat"
    /\ Retry(s, "parse", StripImage(messages[s]))

\* ollama.ResponseError handled like any other exception: the call is retried
ChatResponseError_retried(s) ==
    /\ pc[s] = "chat"
    /\ Retry(s, "connection", messages[s])

\* ollama_client.chat raised ollama.ResponseError ("Couldn't connect to
\* Ollama", apis.py:123-128): call_ollama_llava returns None, which run_agent
\* logs as the LLM response (app.py:228-236)
ChatResponseError(s) ==
    /\ pc[s] = "chat"
    /\ failed' = [failed EXCEPT ![s] =
                    Append(@, [how |-> "connection", history |-> sent[s]])]
    /\ Log(s, loop_count[s] + 1, 0, "LLM_RESPONSE",
           [operations |-> None, loop |-> loop_count[s] + 1], None, 0)
    /\ emitted' = Emit(Emit(emitted, s, "log"), s, "llm_response")
    /\ operations' = [operations EXCEPT ![s] = [kind |-> "None"]]
    /\ idx' = [idx EXCEPT ![s] = 1]
    /\ depth' = [depth EXCEPT ![s] = 0]
    /\ pc' = [pc EXCEPT ![s] = "exec"]
    /\ UNCHANGED <<current_session, os_calls, loop_count, messages, sent,
                   calls, stop_at, last_response, faults>>

\* the response text parses to `batch` (apis.py:102-121), which run_agent
\* logs (app.py:228-236)
ChatReturns(s, batch) ==
    /\ pc[s] = "chat"
    /\ messages' = [messages EXCEPT ![s] =
                      Append(StripImage(@), [role |-> "assistant", content |-> batch,
                                             images |-> None])]
    /\ Log(s, loop_count[s] + 1, 0, "LLM_RESPONSE",
           [operations |-> batch, loop |-> loop_count[s] + 1], None, 0)
    /\ emitted' = Emit(Emit(emitted, s, "log"), s, "llm_response")
    /\ operations' = [operations EXCEPT ![s] = [kind |-> "list", ops |-> batch]]
    /\ idx' = [idx EXCEPT ![s] = 1]
    /\ depth' = [depth EXCEPT ![s] = 0]
    /\ pc' = [pc EXCEPT ![s] = "exec"]
    /\ UNCHANGED <<current_session, os_calls, loop_count, sent, failed,
                   calls, stop_at, last_response, faults>>


(***************************************************************************)
(* run_agent                                                               *)
(* get_system_prompt is taken not to raise, so the outer except branch      *)
(* (app.py:323-328) is not entered.                                        *)
(***************************************************************************)
\* app.py:207-212
AgentInit(s) ==
    /\ pc[s] = "init"
    /\ messages' = [messages EXCEPT ![s] =
                      <<[role |-> "system", content |-> "system_prompt", images |-> None]>>]
    /\ loop_count' = [loop_count EXCEPT ![s] = 0]
    /\ pc' = [pc EXCEPT ![s] = "loop"]
    /\ UNCHANGED <<actions, total_reward, origin, current_session, emitted,
                   os_calls, operations, idx, depth, sent, failed, calls,
                   stop_at, last_response, faults>>

\* the while test as `loop_count <= max_loops`
LoopTest_off_by_one(s) ==
    /\ pc[s] = "loop"
    /\ IF loop_count[s] <= max_loops
       THEN /\ emitted' = Emit(emitted, s, "agent_thinking")
            /\ depth' = [depth EXCEPT ![s] = 1]
            /\ sent' = [sent EXCEPT ![s] = <<>>]
            /\ failed' = [failed EXCEPT ![s] = <<>>]
            /\ pc' = [pc EXCEPT ![s] = "adapter"]
       ELSE /\ pc' = [pc EXCEPT ![s] = "after_loop"]
            /\ UNCHANGED <<emitted, depth, sent, failed>>
    /\ UNCHANGED <<actions, total_reward, origin, current_session, os_calls,
                   loop_count, messages, operations, idx, calls, stop_at,
                   last_response, faults>>

\* the while test (app.py:214) and, inside the loop, the agent_thinking event
\* and the call of get_next_action (app.py:217-225, apis.py:26-36)
LoopTest(s) ==
    /\ pc[s] = "loop"
    /\ IF loop_count[s] < max_loops
       THEN /\ emitted' = Emit(emitted, s, "agent_thinking")
            /\ depth' = [depth EXCEPT ![s] = 1]
            /\ sent' = [sent EXCEPT ![s] = <<>>]
            /\ failed' = [failed EXCEPT ![s] = <<>>]
            /\ pc' = [pc EXCEPT ![s] = "adapter"]
       ELSE /\ pc' = [pc EXCEPT ![s] = "after_loop"]
            /\ UNCHANGED <<emitted, depth, sent, failed>>
    /\ UNCHANGED <<actions, total_reward, origin, current_session, os_calls,
                   loop_count, messages, operations, idx, calls, stop_at,
                   last_response, faults>>

\* `for operation in operations` over None raises TypeError (app.py:239)
ExecNone(s) ==
    /\ pc[s] = "exec"
    /\ operations[s].kind = "None"
    /\ LoopError(s)
    /\ UNCHANGED <<current_session, os_calls, loop_count, messages, operations,
                   idx, sent, failed, calls, stop_at, last_response, faults>>

\* the operation the for loop stands at
CurrentOp(s) == operations[s].ops[idx[s]]

AtOperation(s) ==
    /\ pc[s] = "exec"
    /\ operations[s].kind = "list"
    /\ idx[s] <= Len(operations[s].ops)

\* the done branch without its return: the for loop goes on
ExecDone_no_return(s) ==
    /\ AtOperation(s)
    /\ operate_type(CurrentOp(s)) = "done"
    /\ Log(s, loop_count[s] + 1, idx[s], "DONE",
           [summary |-> Get(CurrentOp(s), "summary", "")], PyTrue, 20)
    /\ emitted' = Emit(Emit(emitted, s, "log"), s, "objective_complete")
    /\ idx' = [idx EXCEPT ![s] = @ + 1]
    /\ UNCHANGED <<current_session, os_calls, loop_count, messages, operations,
                   pc, depth, sent, failed, calls, stop_at, last_response, faults>>

\* app.py:244-255
ExecDone(s) ==
    /\ AtOperation(s)
    /\ operate_type(CurrentOp(s)) = "done"
    /\ Log(s, loop_count[s] + 1, idx[s], "DONE",
           [summary |-> Get(CurrentOp(s), "summary", "")], PyTrue, 20)
    /\ emitted' = Emit(Emit(emitted, s, "log"), s, "objective_complete")
    /\ pc' = [pc EXCEPT ![s] = "ended"]
    /\ UNCHANGED <<current_session, os_calls, loop_count, messages, operations,
                   idx, depth, sent, failed, calls, stop_at, last_response, faults>>

\* the call on operating_system an operation leads to, <<>> when it leads to
\* none (app.py:257-259, 271-273, 285-291)
OsCall(operation) ==
    LET type == operate_type(operation)
    IN IF type = "press"
       THEN <<[call |-> "press", arg |-> Get(operation, "keys", <<>>)]>>
       ELSE IF type = "write"
       THEN <<[call |-> "write", arg |-> Get(operation, "content", "")]>>
       ELSE IF type = "click" /\ Get(operation, "x", 0) # 0 /\ Get(operation, "y", 0) # 0
       THEN <<[call |-> "mouse", arg |-> <<operation.x, operation.y>>]>>
       ELSE <<>>

LogType(call) == IF call = "press" THEN "PRESS"
                 ELSE IF call = "write" THEN "WRITE" ELSE "CLICK"

\* app.py:257-302: press, write and click; any other tag, and a click whose
\* x or y is missing or 0, does nothing.  `os_ok` is whether the call on
\* operating_system returns; when it raises, the except branch is entered.
ExecOperation(s, os_ok) ==
    /\ AtOperation(s)
    /\ operate_type(CurrentOp(s)) # "done"
    /\ LET c == OsCall(CurrentOp(s))
       IN IF c = <<>>
          THEN /\ os_ok
               /\ idx' = [idx EXCEPT ![s] = @ + 1]
               /\ UNCHANGED <<actions, total_reward, origin, emitted, os_calls,
                              pc, depth>>
          ELSE IF os_ok
          THEN /\ os_calls' = Append(os_calls, [task |-> s, loop |-> loop_count[s] + 1,
                                                pos |-> idx[s], call |-> c[1].call,
                                                arg |-> c[1].arg])
               /\ Log(s, loop_count[s] + 1, idx[s], LogType(c[1].call),
                      [arg |-> c[1].arg], None, 0)
               /\ emitted' = Emit(Emit(emitted, s, "log"), s, "action_executed")
               /\ idx' = [idx EXCEPT ![s] = @ + 1]
               /\ UNCHANGED <<pc, depth>>
          ELSE /\ LoopError(s)
               /\ UNCHANGED <<os_calls, idx>>
    /\ UNCHANGED <<current_session, loop_count, messages, operations, sent,
                   failed, calls, stop_at, last_response, faults>>

\* the end of the for loop without `loop_count += 1`
EndBatch_no_increment(s) ==
    /\ pc[s] = "exec"
    /\ operations[s].kind = "list"
    /\ idx[s] > Len(operations[s].ops)
    /\ pc' = [pc EXCEPT ![s] = "loop"]
    /\ UNCHANGED <<actions, total_reward, origin, current_session, emitted,
                   os_calls, loop_count, messages, operations, idx, depth, sent,
                   failed, calls, stop_at, last_response, faults>>

\* the for loop is through: loop_count += 1 (app.py:304)
EndBatch(s) ==
    /\ pc[s] = "exec"
    /\ operations[s].kind = "list"
    /\ idx[s] > Len(operations[s].ops)
    /\ loop_count' = [loop_count EXCEPT ![s] = @ + 1]
    /\ pc' = [pc EXCEPT ![s] = "loop"]
    /\ UNCHANGED <<actions, total_reward, origin, current_session, emitted,
                   os_calls, messages, operations, idx, depth, sent, failed,
                   calls, stop_at, last_response, faults>>

\* the block after the loop without its `if loop_count >= max_loops` test
AfterLoop_untested(s) ==
    /\ pc[s] = "after_loop"
    /\ Log(s, loop_count[s], 0, "MAX_LOOPS", [loops |-> loop_count[s]], PyFalse, -5)
    /\ emitted' = Emit(Emit(emitted, s, "log"), s, "session_ended")
    /\ pc' = [pc EXCEPT ![s] = "ended"]
    /\ UNCHANGED <<current_session, os_calls, loop_count, messages, operations,
                   idx, depth, sent, failed, calls, stop_at, last_response, faults>>

\* after the loop (app.py:315-321); the task ends
AfterLoop(s) ==
    /\ pc[s] = "after_loop"
    /\ IF loop_count[s] >= max_loops
       THEN /\ Log(s, loop_count[s], 0, "MAX_LOOPS", [loops |-> loop_count[s]], PyFalse, -5)
            /\ emitted' = Emit(Emit(emitted, s, "log"), s, "session_ended")
       ELSE UNCHANGED <<actions, total_reward, origin, emitted>>
    /\ pc' = [pc EXCEPT ![s] = "ended"]
    /\ UNCHANGED <<current_session, os_calls, loop_count, messages, operations,
                   idx, depth, sent, failed, calls, stop_at, last_response, faults>>

(***************************************************************************)
(* Specifications                                                          *)
(***************************************************************************)
Objectives == {"", "open a text editor and type hello"}

\* the bodies posted to /api/feedback while sessions run: no index, the first
\* index past the log, the last entry counted from the end
FeedbackBodies ==
    {[success |-> PyTrue], [action_index |-> Len(actions), success |-> PyTrue]}
    \cup {[action_index |-> -1, success |-> b] : b \in {PyTrue, PyFalse}}

\* the sessions started in Spec
MainSessions == {1}

\* one more of the environment events of which a behaviour contains `limit`
Charged(limit) == faults < limit /\ faults' = faults + 1

StopRequest == Charged(MaxFaults) /\ stop_session

FeedbackRequest(data, limit) == Charged(limit) /\ submit_feedback(data)

Agent(s) ==
    \/ AgentInit(s)
    \/ LoopTest(s)
    \/ \E ok \in BOOLEAN : Prepare(s, ok)
    \/ ChatRaises(s)
    \/ ChatMalformed(s)
    \/ ChatResponseError(s)
    \/ \E batch \in Batches : ChatReturns(s, batch)
    \/ ExecNone(s)
    \/ ExecDone(s)
    \/ \E os_ok \in BOOLEAN : ExecOperation(s, os_ok)
    \/ EndBatch(s)
    \/ AfterLoop(s)

Next ==
    \/ \E s \in MainSessions, objective \in Objectives, reachable \in BOOLEAN :
          start_session(s, objective, reachable)
    \/ StopRequest
    \/ \E data \in FeedbackBodies : FeedbackRequest(data, MaxFaults)
    \/ \E s \in MainSessions : Agent(s)

Spec == Init /\ [][Next]_vars


(***************************************************************************)
(* SpecLive: the loop alone under fair scheduling.  Every remote call      *)
(* returns and the background task keeps being scheduled (WF on its        *)
(* steps).  Within a model call every attempt may fail: only the            *)
(* interpreter's recursion limit bounds the retries.                       *)
(***************************************************************************)
NextLive ==
    \/ \E s \in MainSessions, objective \in Objectives, reachable \in BOOLEAN :
          start_session(s, objective, reachable)
    \/ \E s \in MainSessions : Agent(s)

SpecLive == Init /\ [][NextLive]_vars /\ \A s \in MainSessions : WF_vars(Agent(s))

(***************************************************************************)
(* SpecTwo: two sessions started one after the other, their tasks running  *)
(* concurrently.  The model answers every call, and every batch it returns *)
(* contains a done, so that each task ends in its first iteration.         *)
(***************************************************************************)
TwoBatches == {batch \in Batches :
                 \E k \in 1..Len(batch) : operate_type(batch[k]) = "done"}

AgentTwo(s) ==
    \/ AgentInit(s)
    \/ LoopTest(s)
    \/ Prepare(s, TRUE)
    \/ \E batch \in TwoBatches : ChatReturns(s, batch)
    \/ ExecDone(s)
    \/ ExecOperation(s, TRUE)

NextTwo ==
    \/ \E s \in Sessions : start_session(s, "open a text editor and type hello", TRUE)
    \/ \E s \in Sessions : AgentTwo(s)

SpecTwo == Init /\ [][NextTwo]_vars

(***************************************************************************)
(* SpecStop: one session whose task ends in its first iteration, and       *)
(* /api/stop requested up to MaxStops times at any moment.                 *)
(***************************************************************************)
StopAgain == Charged(MaxStops) /\ stop_session

NextStop ==
    \/ \E s \in MainSessions : start_session(s, "open a text editor and type hello", TRUE)
    \/ StopAgain
    \/ \E s \in MainSessions : AgentTwo(s)

SpecStop == Init /\ [][NextStop]_vars

(***************************************************************************)
(* SpecSchema: one session, the model answering every call with the batch   *)
(* of a finished objective or with a batch whose elements are not           *)
(* Operations: a press without keys and an element tagged "scroll", or a    *)
(* click without y.                                                         *)
(***************************************************************************)
OddBatch == <<[operation |-> "press"], [operation |-> "scroll", amount |-> 3]>>

SchemaBatches == {OddBatch, <<[operation |-> "click", x |-> 100]>>,
                  <<Done("typed hello")>>}

AgentSchema(s) ==
    \/ AgentInit(s)
    \/ LoopTest(s)
    \/ Prepare(s, TRUE)
    \/ \E batch \in SchemaBatches : ChatReturns(s, batch)
    \/ ExecDone(s)
    \/ ExecOperation(s, TRUE)
    \/ EndBatch(s)
    \/ AfterLoop(s)

NextSchema ==
    \/ \E s \in MainSessions : start_session(s, "open a text editor and type hello", TRUE)
    \/ \E s \in MainSessions : AgentSchema(s)

SpecSchema == Init /\ [][NextSchema]_vars

(***************************************************************************)
(* SpecHistory: the loop, its model calls failing and being retried, and   *)
(* confirm_system_prompt (apis.py:153-164) applied to the history at any   *)
(* moment after run_agent built it.                                        *)
(***************************************************************************)
\* confirm_system_prompt, were it to put the new system message in front
confirm_system_prompt_inserts(msgs) ==
    <<[role |-> "system", content |-> "system_prompt", images |-> None]>> \o msgs

\* confirm_system_prompt: messages[0] = new_system_message
confirm_system_prompt(msgs) ==
    [msgs EXCEPT ![1] = [role |-> "system", content |-> "system_prompt", images |-> None]]

Reassert(s) ==
    /\ pc[s] \notin {"idle", "init"}
    /\ Charged(MaxReasserts)
    /\ messages' = [messages EXCEPT ![s] = confirm_system_prompt(@)]
    /\ UNCHANGED <<actions, total_reward, origin, current_session, emitted,
                   os_calls, pc, loop_count, operations, idx, depth, sent,
                   failed, calls, stop_at, last_response>>

NextHistory ==
    \/ \E s \in MainSessions, objective \in Objectives, reachable \in BOOLEAN :
          start_session(s, objective, reachable)
    \/ \E s \in MainSessions : Agent(s)
    \/ \E s \in MainSessions : Reassert(s)

SpecHistory == Init /\ [][NextHistory]_vars

(***************************************************************************)
(* SpecClick: one session, the model answering every call with the batch   *)
(* of a finished objective, with two clicks, the first at the left edge of *)
(* the screen (x = 0), or with one click at its top edge (y = 0).          *)
(***************************************************************************)
ClickBatches == {<<Click(0, 200), Click(100, 200)>>, <<Click(100, 0)>>,
                 <<Done("typed hello")>>}

AgentClick(s) ==
    \/ AgentInit(s)
    \/ LoopTest(s)
    \/ Prepare(s, TRUE)
    \/ \E batch \in ClickBatches : ChatReturns(s, batch)
    \/ ExecDone(s)
    \/ ExecOperation(s, TRUE)
    \/ EndBatch(s)
    \/ AfterLoop(s)

NextClick ==
    \/ \E s \in MainSessions : start_session(s, "open a text editor and type hello", TRUE)
    \/ \E s \in MainSessions : AgentClick(s)

SpecClick == Init /\ [][NextClick]_vars

(***************************************************************************)
(* SpecParse: the loop, its model calls failing and being retried, and the *)
(* model also answering with JSON that is no array.                        *)
(***************************************************************************)
\* the response text is `null`: json.loads returns None, the assistant
\* message is appended and None returned (apis.py:112-121), which run_agent
\* logs as the LLM response (app.py:228-236)
ChatReturnsNull(s) ==
    /\ pc[s] = "chat"
    /\ messages' = [messages EXCEPT ![s] =
                      Append(StripImage(@), [role |-> "assistant", content |-> "null",
                                             images |-> None])]
    /\ Log(s, loop_count[s] + 1, 0, "LLM_RESPONSE",
           [operations |-> None, loop |-> loop_count[s] + 1], None, 0)
    /\ emitted' = Emit(Emit(emitted, s, "log"), s, "llm_response")
    /\ operations' = [operations EXCEPT ![s] = [kind |-> "None"]]
    /\ idx' = [idx EXCEPT ![s] = 1]
    /\ depth' = [depth EXCEPT ![s] = 0]
    /\ pc' = [pc EXCEPT ![s] = "exec"]
    /\ UNCHANGED <<current_session, os_calls, loop_count, sent, failed,
                   calls, stop_at, last_response, faults>>

NextParse ==
    \/ \E s \in MainSessions, objective \in Objectives, reachable \in BOOLEAN :
          start_session(s, objective, reachable)
    \/ \E s \in MainSessions : Agent(s)
    \/ \E s \in MainSessions : ChatReturnsNull(s)

SpecParse == Init /\ [][NextParse]_vars

(***************************************************************************)
(* SpecLogger: the ActionLogger on its own, called with any arguments, and *)
(* /api/feedback with any index around the log.                            *)
(***************************************************************************)
SuccessValues == {None, PyTrue, PyFalse}
RewardValues == {-10, 0, 20}

\* logger.log_action(action_type, {}, success, reward)
CallLogAction(action_type, success, reward) ==
    /\ Len(actions) < MaxLog
    /\ Log(0, 0, 0, action_type, <<>>, success, reward)
    /\ UNCHANGED <<current_session, emitted, os_calls, agentVars, stop_at,
                   last_response, faults>>

AnyFeedbackBodies ==
    {[success |-> b] : b \in {PyTrue, PyFalse}}
    \cup {[action_index |-> i, success |-> b] :
            i \in (0 - Len(actions) - 1)..(Len(actions) + 1), b \in {PyTrue, PyFalse}}
    \cup {[action_index |-> i] : i \in 0..(Len(actions) - 1)}

NextLogger ==
    \/ \E success \in SuccessValues, reward \in RewardValues :
          CallLogAction("WRITE", success, reward)
    \/ \E data \in AnyFeedbackBodies : FeedbackRequest(data, MaxFeedback)

SpecLogger == Init /\ [][NextLogger]_vars


(***************************************************************************)
(* What the log says of a session.                                         *)
(***************************************************************************)
\* the entries of the log that the task of session s appended
EntriesBy(s) == {i \in 1..Len(actions) : origin[i].task = s}

EntriesOfType(s, type) == {i \in EntriesBy(s) : actions[i].type = type}

TerminalTypes == {"DONE", "MAX_LOOPS", "ERROR"}

\* the terminal outcomes the log records for session s
Outcomes(s) == {actions[i].type : i \in EntriesBy(s)} \cap TerminalTypes

Ended(s) == pc[s] = "ended"

EndsIn(s, type) == Ended(s) /\ Outcomes(s) = {type}

HasDone(ops) == \E k \in 1..Len(ops) : operate_type(ops[k]) = "done"

\* the position of the first done of a batch that has one
FirstDone(ops) ==
    CHOOSE k \in 1..Len(ops) :
        /\ operate_type(ops[k]) = "done"
        /\ \A j \in 1..(k - 1) : operate_type(ops[j]) # "done"

\* the batch the model call returned to session s contains a done
BatchWithDone(s) == operations[s].kind = "list" /\ HasDone(operations[s].ops)

\* the calls on operating_system made for session s
OsCallsBy(s) == SelectSeq(os_calls, LAMBDA c : c.task = s)

\* this step appends one entry, of this type, for session s
Appends(s, type) ==
    /\ Len(actions') = Len(actions) + 1
    /\ origin'[Len(actions')].task = s
    /\ actions'[Len(actions')].type = type

(***************************************************************************)
(* C1                                                                      *)
(***************************************************************************)
\* C1 as stated: whenever the batch returned by the model call contains a
\* done, the Session ends in DONE with exactly one DONE entry and exactly one
\* objective_complete event.
C1_DoneBatchEndsInDone ==
    \A s \in Sessions :
        (Ended(s) /\ BatchWithDone(s)) =>
            /\ EndsIn(s, "DONE")
            /\ Cardinality(EntriesOfType(s, "DONE")) = 1
            /\ emitted[<<s, "objective_complete">>] = 1

C1_State ==
    \A s \in Sessions :
        BatchWithDone(s) =>
            LET k == FirstDone(operations[s].ops)
            IN /\ \A i \in 1..Len(os_calls) :
                      (os_calls[i].task = s /\ os_calls[i].loop = loop_count[s] + 1)
                          => os_calls[i].pos < k
               /\ \A i \in EntriesBy(s) :
                      origin[i].loop = loop_count[s] + 1 => origin[i].pos <= k
               /\ emitted[<<s, "objective_complete">>] <= 1
               /\ Cardinality(EntriesOfType(s, "DONE")) <= 1
               /\ (Ended(s) /\ idx[s] = k) =>
                      /\ EndsIn(s, "DONE")
                      /\ Cardinality(EntriesOfType(s, "DONE")) = 1
                      /\ emitted[<<s, "objective_complete">>] = 1

C1_Step ==
    \A s \in Sessions :
        BatchWithDone(s) =>
            LET k == FirstDone(operations[s].ops)
            IN /\ calls'[s] = calls[s]
               /\ idx[s] = k => OsCallsBy(s)' = OsCallsBy(s)
               /\ Ended(s) => EntriesBy(s)' = EntriesBy(s)
               /\ (idx[s] = k /\ ~Ended(s) /\ Ended(s)') =>
                      /\ Appends(s, "DONE")
                      /\ actions'[Len(actions')].success = PyTrue
                      /\ actions'[Len(actions')].reward = 20
                      /\ total_reward' = total_reward + 20
                      /\ emitted'[<<s, "objective_complete">>] = 1

\* C1, amended: for every batch returned by the model call with a done at
\* position k, no Operation at a position > k is dispatched or logged and no
\* further model call is made; and when the Executor raised on none of the
\* Operations before k (the loop reaches position k), the Session ends in
\* DONE, the step that ends it adds exactly 20 to the accumulator, once, and
\* objective_complete is emitted exactly once.
C1_DoneEndsSession == [](C1_State) /\ [][C1_Step]_vars

\* a done in the middle of a batch, in a later iteration, ended the session
C1_Witness ==
    /\ EndsIn(1, "DONE")
    /\ loop_count[1] >= 1
    /\ Len(operations[1].ops) = 3
    /\ idx[1] = 2
    /\ \E i \in 1..Len(os_calls) : os_calls[i].loop = loop_count[1] + 1

(***************************************************************************)
(* C2                                                                      *)
(***************************************************************************)
C2_State ==
    \A s \in Sessions :
        /\ loop_count[s] <= max_loops
        /\ Cardinality(EntriesOfType(s, "MAX_LOOPS")) <= 1
        /\ EntriesOfType(s, "MAX_LOOPS") # {} => loop_count[s] = max_loops
        /\ (Ended(s) /\ loop_count[s] = max_loops) =>
               /\ EndsIn(s, "MAX_LOOPS")
               /\ EntriesOfType(s, "DONE") = {}

C2_Step ==
    \A s \in Sessions :
        /\ loop_count[s] = max_loops =>
               /\ calls'[s] = calls[s]
               /\ loop_count'[s] = loop_count[s]
        /\ Appends(s, "MAX_LOOPS") =>
               /\ actions'[Len(actions')].success = PyFalse
               /\ actions'[Len(actions')].reward = -5
               /\ total_reward' = total_reward - 5

\* C2: loop_count never exceeds max_loops; a Session whose loop_count reached
\* max_loops ends in MAX_LOOPS, with one MAX_LOOPS entry whose append takes
\* exactly 5 from the accumulator, and makes no model call after that.
C2_LoopBudget == [](C2_State) /\ [][C2_Step]_vars

C2_Witness ==
    /\ EndsIn(1, "MAX_LOOPS")
    /\ loop_count[1] = max_loops
    /\ calls[1] >= max_loops

(***************************************************************************)
(* C3                                                                      *)
(***************************************************************************)
\* C3 as stated: once a stop was requested, the Loop begins no iteration
\* beyond the one that was in flight (no model call, no Operation).
C3_StopObserved ==
    \A s \in Sessions :
        (stop_at[s] # -1 /\ pc[s] \in {"adapter", "chat", "exec"})
            => loop_count[s] + 1 <= stop_at[s]

(***************************************************************************)
(* C4                                                                      *)
(***************************************************************************)
\* the last attempt of the current model call met ollama.ResponseError
ConnectionFailed(s) ==
    failed[s] # <<>> /\ failed[s][Len(failed[s])].how = "connection"

C4_State ==
    \A s \in Sessions :
        (ConnectionFailed(s) /\ Ended(s)) =>
            /\ EndsIn(s, "ERROR")
            /\ Cardinality(EntriesOfType(s, "ERROR")) = 1
            /\ emitted[<<s, "error">>] = 1

C4_Step ==
    \A s \in Sessions :
        ConnectionFailed(s) =>
            /\ calls'[s] = calls[s]
            /\ loop_count'[s] = loop_count[s]
            /\ Cardinality(EntriesOfType(s, "ERROR")') <= 1
            /\ Appends(s, "ERROR") =>
                   /\ actions'[Len(actions')].success = PyFalse
                   /\ actions'[Len(actions')].reward = -10
                   /\ total_reward' = total_reward - 10

\* C4: after a connection failure of the model call the Session makes no
\* further remote call, ends in ERROR with exactly one ERROR entry, whose
\* append (success false, reward -10) takes exactly 10 from the accumulator,
\* emits one error event, and does not increment loop_count.
C4_ConnectionFailureIsFatal == [](C4_State) /\ [][C4_Step]_vars

C4_Witness ==
    /\ EndsIn(1, "ERROR")
    /\ ConnectionFailed(1)
    /\ loop_count[1] >= 1

(***************************************************************************)
(* C5                                                                      *)
(***************************************************************************)
\* C5 as stated: the history sent by the retry of an attempt that failed to
\* parse is the history that attempt had sent.
C5_RetrySendsSameHistory ==
    \A s \in Sessions :
        (pc[s] = "chat" /\ failed[s] # <<>> /\ failed[s][Len(failed[s])].how = "parse")
            => sent[s] = failed[s][Len(failed[s])].history

(***************************************************************************)
(* C6                                                                      *)
(***************************************************************************)
\* C6 as stated: while a remote call is in flight, the last message of the
\* history, and no other, carries an image.
C6_OnlyLastCarriesImage ==
    \A s \in Sessions :
        pc[s] = "chat" =>
            \A i \in 1..Len(messages[s]) :
                (messages[s][i].images # None) <=> (i = Len(messages[s]))

(***************************************************************************)
(* C7                                                                      *)
(***************************************************************************)
\* C7: every started Session eventually stops in one terminal outcome, the
\* remote calls returning and the task being scheduled fairly
C7_EverySessionStops ==
    \A s \in MainSessions :
        (pc[s] # "idle") ~> (Ended(s) /\ Cardinality(Outcomes(s)) = 1)

\* persistently malformed responses, in a later iteration, ended in ERROR
C7_Witness ==
    /\ EndsIn(1, "ERROR")
    /\ loop_count[1] >= 1
    /\ Len(failed[1]) = RecursionLimit
    /\ \A i \in 1..Len(failed[1]) : failed[1][i].how = "parse"


(***************************************************************************)
(* C8                                                                      *)
(***************************************************************************)
\* the bodies whose action_index is a valid index of the log, success given
ValidFeedbackBodies ==
    {[action_index |-> i, success |-> b] :
        i \in 0..(Len(actions) - 1), b \in {PyTrue, PyFalse}}

C8_Step ==
    \A data \in ValidFeedbackBodies :
        submit_feedback(data) =>
            LET i == data.action_index + 1
                delta == IF data.success = PyTrue THEN 10 ELSE -5
            IN /\ actions'[i].success = data.success
               /\ actions'[i].reward = delta
               /\ total_reward' = total_reward + delta
               /\ Len(actions') = Len(actions)
               /\ \A j \in 1..Len(actions) : j # i => actions'[j] = actions[j]

\* C8: feedback on a valid index i sets entry i to success=true, reward=+10
\* and adds exactly 10 to the accumulator, or to success=false, reward=-5 and
\* takes exactly 5, whatever success and reward the entry had: every
\* amendment of the same index applies its delta again.
C8_FeedbackAppliesDelta == [][C8_Step]_vars

\* one entry, logged with success unknown, amended twice as a success: the
\* entry shows 10, the accumulator 20
C8_Witness ==
    /\ Len(actions) = 1
    /\ emitted[<<0, "feedback_received">>] = 2
    /\ actions[1].success = PyTrue
    /\ actions[1].reward = 10
    /\ total_reward = 20

(***************************************************************************)
(* C9                                                                      *)
(***************************************************************************)
\* the index of the body is missing, past the log or negative
OutOfBounds(data) ==
    \/ "action_index" \notin DOMAIN data
    \/ data.action_index >= Len(actions)
    \/ data.action_index < 0

\* C9 as stated: feedback whose index is out of bounds is answered with an
\* error and changes no log entry, not the accumulator and not the Loop.
C9_OutOfBoundsRejected ==
    [][\A data \in FeedbackBodies :
          (submit_feedback(data) /\ OutOfBounds(data)) =>
              /\ last_response' \in {400, 500}
              /\ UNCHANGED <<actions, total_reward, agentVars>>]_vars

(***************************************************************************)
(* C10                                                                     *)
(***************************************************************************)
C10_Step ==
    \A success \in SuccessValues, reward \in RewardValues :
        CallLogAction("WRITE", success, reward) =>
            /\ Len(actions') = Len(actions) + 1
            /\ SubSeq(actions', 1, Len(actions)) = actions
            /\ actions'[Len(actions')].success = success
            /\ actions'[Len(actions')].reward = reward
            /\ total_reward' = IF success \in {PyTrue, PyFalse}
                               THEN total_reward + reward ELSE total_reward

\* C10: log_action appends exactly one entry at the end and leaves the
\* earlier entries as they were; it adds reward to the accumulator when
\* success is true or false and leaves the accumulator alone when success is
\* null, whatever reward is.
C10_LogActionFrame == [][C10_Step]_vars

\* an entry logged with success unknown and reward 20 left the accumulator
\* alone; the next, logged as a failure, took 10
C10_Witness ==
    /\ Len(actions) = 2
    /\ actions[1].success = None /\ actions[1].reward = 20
    /\ actions[2].success = PyFalse /\ actions[2].reward = -10
    /\ total_reward = -10
    /\ emitted[<<0, "feedback_received">>] = 0

(***************************************************************************)
(* C11                                                                     *)
(***************************************************************************)
\* the event run_agent emits with each terminal entry (app.py:251, 312, 321)
TerminalEvent(type) ==
    IF type = "DONE" THEN "objective_complete"
    ELSE IF type = "ERROR" THEN "error" ELSE "session_ended"

TerminalEvents == {TerminalEvent(type) : type \in TerminalTypes}

\* the terminal entries the task of session s appended
TerminalEntries(s) == {i \in EntriesBy(s) : actions[i].type \in TerminalTypes}

\* C11: a task that ended appended exactly one terminal entry (DONE,
\* MAX_LOOPS or ERROR) and emitted exactly one terminating event, the one of
\* that entry; a task that has not ended appended at most one, and only on
\* its way out of the loop.
C11_OneTerminalTransition ==
    \A s \in Sessions :
        /\ Cardinality(TerminalEntries(s)) <= 1
        /\ \A e \in TerminalEvents :
               emitted[<<s, e>>] =
                   Cardinality({i \in TerminalEntries(s) : TerminalEvent(actions[i].type) = e})
        /\ TerminalEntries(s) # {} => pc[s] \in {"after_loop", "ended"}
        /\ Ended(s) => Cardinality(TerminalEntries(s)) = 1

\* the Executor raised on an Operation of a later iteration: one ERROR entry
\* and one error event, nothing else terminal
C11_Witness ==
    /\ EndsIn(1, "ERROR")
    /\ failed[1] = <<>>
    /\ loop_count[1] >= 1
    /\ emitted[<<1, "error">>] = 1
    /\ emitted[<<1, "session_ended">>] = 0

(***************************************************************************)
(* C12                                                                     *)
(***************************************************************************)
\* the action log and the accumulator the task and the requests of session s
\* use: the one module-level logger (app.py:66), whatever s is
LogOf(s) == actions
RewardOf(s) == total_reward

RECURSIVE SumRewards(_, _)
\* the sum of the rewards of the entries of acts at the positions in `at`
\* that log_action added to the accumulator (success not None)
SumRewards(acts, at) ==
    IF at = {} THEN 0
    ELSE LET i == CHOOSE j \in at : TRUE
         IN (IF acts[i].success # None THEN acts[i].reward ELSE 0)
            + SumRewards(acts, at \ {i})

\* C12 as stated: the action log of a Session holds only entries of that
\* Session (those its task appended, and those of the request handlers), and
\* its reward accumulator is the sum over those entries.
C12_SessionsHaveOwnLog ==
    \A s \in Sessions :
        pc[s] # "idle" =>
            /\ \A i \in 1..Len(LogOf(s)) : origin[i].task \in {0, s}
            /\ RewardOf(s) = SumRewards(LogOf(s), {i \in 1..Len(LogOf(s)) : origin[i].task = s})

(***************************************************************************)
(* C13                                                                     *)
(***************************************************************************)
\* the last request that wrote to the log was a stop, and nothing was logged
\* since
JustStopped == actions # <<>> /\ actions[Len(actions)].type = "SESSION_STOP"

\* C13 as stated: a stop issued right after a stop leaves the action log, the
\* reward accumulator and the current-session reference as the first left
\* them.
C13_StopIdempotent ==
    [][(stop_session /\ JustStopped) =>
          UNCHANGED <<actions, total_reward, current_session>>]_vars

(***************************************************************************)
(* C14                                                                     *)
(***************************************************************************)
\* the fields run_agent reads of each variant (app.py:245, 258, 272, 287-288)
RequiredFields(tag) ==
    IF tag = "done" THEN {"summary"}
    ELSE IF tag = "press" THEN {"keys"}
    ELSE IF tag = "write" THEN {"content"}
    ELSE {"x", "y"}

\* the element carries one of the four tags run_agent dispatches on, and the
\* fields of that variant
WellFormed(operation) ==
    /\ operate_type(operation) \in {"done", "press", "write", "click"}
    /\ RequiredFields(operate_type(operation)) \subseteq DOMAIN operation

\* the LLM_RESPONSE entries of session s whose batch has an element that is
\* not well formed
OddResponses(s) ==
    {i \in EntriesOfType(s, "LLM_RESPONSE") :
        /\ actions[i].details.operations # None
        /\ \E k \in 1..Len(actions[i].details.operations) :
               ~WellFormed(actions[i].details.operations[k])}

\* C14 as stated: a batch with an element of unexpected tag, or lacking its
\* variant's fields, leads to no Executor call and to no log entry of an
\* Operation, and loop_count is not incremented for it.
C14_SchemaFailureRejected ==
    \A s \in Sessions :
        \A i \in OddResponses(s) :
            LET loop == actions[i].details.loop
            IN /\ \A c \in 1..Len(os_calls) :
                      ~(os_calls[c].task = s /\ os_calls[c].loop = loop)
               /\ \A j \in EntriesBy(s) : ~(origin[j].loop = loop /\ origin[j].pos >= 1)
               /\ loop_count[s] < loop

(***************************************************************************)
(* C15                                                                     *)
(***************************************************************************)
\* run_agent of session s has built its history
HasHistory(s) == pc[s] \notin {"idle", "init"}

C15_State ==
    \A s \in Sessions :
        HasHistory(s) =>
            /\ messages[s] # <<>>
            /\ messages[s][1].role = "system"
            /\ \A i \in 2..Len(messages[s]) : messages[s][i].role # "system"

C15_Step ==
    \A s \in Sessions :
        HasHistory(s) =>
            /\ Len(messages'[s]) >= Len(messages[s])
            /\ \A i \in 2..Len(messages[s]) :
                   /\ messages'[s][i].role = messages[s][i].role
                   /\ messages'[s][i].content = messages[s][i].content

\* C15: once run_agent built it, the history of a Session is never empty and
\* its element 0 is the only message of role system; no step removes a
\* message or moves one, whatever calls succeeded, failed and were retried
\* and however often the system prompt was re-asserted.
C15_SystemMessageFirst == [](C15_State) /\ [][C15_Step]_vars

\* a model call failed and was retried, the system prompt was re-asserted,
\* and the retry's answer was appended
C15_Witness ==
    /\ faults = 2
    /\ failed[1] # <<>>
    /\ Len(messages[1]) >= 4
    /\ messages[1][Len(messages[1])].role = "assistant"

(***************************************************************************)
(* C16                                                                     *)
(***************************************************************************)
\* the last entry the task of session s appended
LastEntryBy(s) == CHOOSE i \in EntriesBy(s) : \A j \in EntriesBy(s) : j <= i

\* the task of session s is through a batch that was one click and stands
\* at the top of the loop again
AfterClickBatch(s) ==
    /\ pc[s] = "loop"
    /\ operations[s].kind = "list"
    /\ Len(operations[s].ops) = 1
    /\ operate_type(operations[s].ops[1]) = "click"

\* C16 as stated: after a batch of a single click a CLICK entry has been
\* appended and loop_count is what it was before the batch.
C16_LoopCountUnchanged ==
    \A s \in Sessions :
        AfterClickBatch(s) =>
            /\ actions[LastEntryBy(s)].type = "CLICK"
            /\ loop_count[s] = origin[LastEntryBy(s)].loop - 1

C16_State ==
    \A s \in Sessions :
        AfterClickBatch(s) =>
            /\ actions[LastEntryBy(s)].type = "CLICK"
            /\ origin[LastEntryBy(s)].pos = 1
            /\ loop_count[s] = origin[LastEntryBy(s)].loop
            /\ OsCallsBy(s)[Len(OsCallsBy(s))] =
                   [task |-> s, loop |-> loop_count[s], pos |-> 1, call |-> "mouse",
                    arg |-> <<operations[s].ops[1].x, operations[s].ops[1].y>>]

C16_Step ==
    \A s \in Sessions :
        (AfterClickBatch(s) /\ pc'[s] # pc[s]) =>
            IF loop_count[s] < max_loops
            THEN /\ pc'[s] = "adapter"
                 /\ emitted'[<<s, "agent_thinking">>] = emitted[<<s, "agent_thinking">>] + 1
            ELSE pc'[s] = "after_loop"

\* C16, amended: after a batch of a single click{100,200}, the Executor
\* returning, a CLICK entry has been appended, one point-and-click call was
\* made, loop_count is one more than before the batch, and the next step of
\* the task begins the next iteration when loop_count is below max_loops
\* and leaves the loop otherwise.
C16_ClickBatchCounts == [](C16_State) /\ [][C16_Step]_vars

\* the third batch of a session was a single click
C16_Witness ==
    /\ AfterClickBatch(1)
    /\ loop_count[1] = 3
    /\ Cardinality(EntriesOfType(1, "CLICK")) = 3

(***************************************************************************)
(* C17                                                                     *)
(***************************************************************************)
\* C17: in every state of the logger, the summary /api/logs answers has
\* total = the number of entries, successful = the number of entries whose
\* success is true, failed = the number whose success is false (the entries
\* of unknown success are in neither), reward = the accumulator, and on an
\* empty log every field, success_rate included, is 0.
C17_Summary ==
    LET summary == get_logs.summary
    IN /\ summary.total = Len(actions)
       /\ summary.successful = Cardinality({i \in 1..Len(actions) : actions[i].success = PyTrue})
       /\ summary.failed = Cardinality({i \in 1..Len(actions) : actions[i].success = PyFalse})
       /\ summary.successful + summary.failed <= summary.total
       /\ summary.reward = total_reward
       /\ actions = <<>> =>
              summary = [total |-> 0, successful |-> 0, failed |-> 0, reward |-> 0,
                         success_rate |-> <<0, 1>>]
       /\ actions # <<>> => summary.success_rate = <<summary.successful * 100, Len(actions)>>

\* a log of one success, one failure and one entry of unknown success
C17_Witness ==
    /\ Len(actions) = 3
    /\ get_logs.summary.successful = 1
    /\ get_logs.summary.failed = 1
    /\ \E i \in 1..3 : actions[i].success = None

(***************************************************************************)
(* C18                                                                     *)
(***************************************************************************)
\* the Executor raised on the Operation at position idx[s] of the batch of
\* the current iteration: the batch was logged for the iteration that
\* loop_count has not counted, and the ERROR entry is there
ExecutorRaised(s) ==
    /\ operations[s].kind = "list"
    /\ EntriesOfType(s, "ERROR") # {}
    /\ \E i \in EntriesOfType(s, "LLM_RESPONSE") : origin[i].loop = loop_count[s] + 1

C18_State ==
    \A s \in Sessions :
        ExecutorRaised(s) =>
            /\ pc[s] \in {"after_loop", "ended"}
            /\ Cardinality(EntriesOfType(s, "ERROR")) = 1
            /\ emitted[<<s, "error">>] = 1
            /\ \A c \in 1..Len(os_calls) :
                   (os_calls[c].task = s /\ os_calls[c].loop = loop_count[s] + 1)
                       => os_calls[c].pos < idx[s]
            /\ \A j \in EntriesBy(s) :
                   (origin[j].loop = loop_count[s] + 1) => origin[j].pos < idx[s]
            /\ Ended(s) => EndsIn(s, "ERROR")

C18_Step ==
    \A s \in Sessions :
        /\ ExecutorRaised(s) =>
               /\ calls'[s] = calls[s]
               /\ loop_count'[s] = loop_count[s]
               /\ OsCallsBy(s)' = OsCallsBy(s)
               /\ EntriesBy(s)' = EntriesBy(s)
        /\ (~ExecutorRaised(s) /\ ExecutorRaised(s)') =>
               /\ Appends(s, "ERROR")
               /\ actions'[Len(actions')].success = PyFalse
               /\ actions'[Len(actions')].reward = -10
               /\ total_reward' = total_reward - 10
               /\ loop_count'[s] = loop_count[s]

\* C18: when the Executor raises on the Operation at position k of a batch,
\* no Operation at a position >= k of that batch is executed or logged, no
\* further model call is made, loop_count is not incremented, and the
\* Session ends in ERROR with exactly one ERROR entry (success false, reward
\* -10, taking exactly 10 from the accumulator) and one error event.
C18_ExecutionFailureAborts == [](C18_State) /\ [][C18_Step]_vars

\* the write at position 1 of [write, done, press] raised in a later
\* iteration, after Operations of earlier batches were executed
C18_Witness ==
    /\ ExecutorRaised(1)
    /\ Ended(1)
    /\ Len(operations[1].ops) = 3
    /\ idx[1] = 1
    /\ loop_count[1] >= 2
    /\ os_calls # <<>>

(***************************************************************************)
(* C19                                                                     *)
(***************************************************************************)
\* the positions of the batch in execution that the for loop is through and
\* that hold a click with x and y, no done before them
ClicksPassed(s) ==
    {k \in 1..(idx[s] - 1) :
        /\ operate_type(operations[s].ops[k]) = "click"
        /\ {"x", "y"} \subseteq DOMAIN operations[s].ops[k]
        /\ \A j \in 1..k : operate_type(operations[s].ops[j]) # "done"}

\* C19 as stated: every click{x,y} of the batch in execution that the loop
\* is through, x or y being 0 included, led to exactly one point-and-click
\* call with (x, y) and to exactly one CLICK entry with success unknown and
\* reward 0.
C19_EveryClickDispatched ==
    \A s \in Sessions :
        (pc[s] = "exec" /\ operations[s].kind = "list") =>
            \A k \in ClicksPassed(s) :
                LET op == operations[s].ops[k]
                    loop == loop_count[s] + 1
                IN /\ Cardinality({c \in 1..Len(os_calls) :
                          os_calls[c] = [task |-> s, loop |-> loop, pos |-> k,
                                         call |-> "mouse", arg |-> <<op.x, op.y>>]}) = 1
                   /\ Cardinality({j \in EntriesBy(s) :
                          /\ origin[j].loop = loop /\ origin[j].pos = k
                          /\ actions[j].type = "CLICK"
                          /\ actions[j].success = None
                          /\ actions[j].reward = 0}) = 1

(***************************************************************************)
(* C20                                                                     *)
(***************************************************************************)
\* no feedback amended an entry so far
NoAmendment == emitted[<<0, "feedback_received">>] = 0

\* C20: in every state reached without a feedback amendment the accumulator
\* is the sum of the rewards of the entries whose success is true or false;
\* the entries of unknown success add nothing, whatever their reward is.
C20_RewardIsSumOfJudged ==
    NoAmendment => total_reward = SumRewards(actions, 1..Len(actions))

\* three entries and no amendment: unknown with reward 20, a success with
\* 20, a failure with -10; the accumulator is 10
C20_Witness ==
    /\ NoAmendment
    /\ Len(actions) = 3
    /\ \E i, j, k \in 1..3 :
          /\ actions[i].success = None /\ actions[i].reward = 20
          /\ actions[j].success = PyTrue /\ actions[j].reward = 20
          /\ actions[k].success = PyFalse /\ actions[k].reward = -10
    /\ total_reward = 10

(***************************************************************************)
(* C21                                                                     *)
(***************************************************************************)
RECURSIVE CountRole(_, _)
\* how many messages of the history have this role
CountRole(msgs, role) ==
    IF msgs = <<>> THEN 0
    ELSE (IF Head(msgs).role = role THEN 1 ELSE 0) + CountRole(Tail(msgs), role)

\* how many model calls of session s returned what the response text parsed
\* to: every return to the loop is logged as LLM_RESPONSE, the return of
\* None after ollama.ResponseError included
ReturnedParsed(s) ==
    Cardinality(EntriesOfType(s, "LLM_RESPONSE")) - (IF ConnectionFailed(s) THEN 1 ELSE 0)

\* the task of session s is in its first model call
InFirstCall(s) == loop_count[s] = 0 /\ pc[s] \in {"adapter", "chat"}

\* the user message of the attempt in flight
InFlightMessage(s) == IF pc[s] = "chat" THEN 1 ELSE 0

\* C21 as stated: the history holds as many assistant messages as model
\* calls returned to the Loop, and each failed attempt of a call left one
\* user message and no assistant message (counted in the first call of a
\* Session, where nothing else is in the history).
C21_FailedAttemptAddsUser ==
    \A s \in Sessions :
        /\ HasHistory(s) => CountRole(messages[s], "assistant") = ReturnedParsed(s)
        /\ InFirstCall(s) =>
               /\ CountRole(messages[s], "assistant") = 0
               /\ CountRole(messages[s], "user") = Len(failed[s]) + InFlightMessage(s)

\* the attempts of the current model call that failed after their user
\* message was appended
FailedAfterAppend(s) == {i \in 1..Len(failed[s]) : failed[s][i].how # "capture"}

C21_State ==
    \A s \in Sessions :
        /\ HasHistory(s) =>
               /\ CountRole(messages[s], "assistant") = ReturnedParsed(s)
               /\ CountRole(messages[s], "user") = calls[s]
        /\ InFirstCall(s) =>
               /\ CountRole(messages[s], "assistant") = 0
               /\ CountRole(messages[s], "user") =
                      Cardinality(FailedAfterAppend(s)) + InFlightMessage(s)

C21_Step ==
    \A s \in Sessions :
        (HasHistory(s) /\ Len(failed'[s]) = Len(failed[s]) + 1) =>
            /\ CountRole(messages'[s], "assistant") = CountRole(messages[s], "assistant")
            /\ CountRole(messages'[s], "user") = CountRole(messages[s], "user")
            /\ Len(messages'[s]) = Len(messages[s])
            /\ failed'[s][Len(failed'[s])].how # "capture" =>
                   /\ pc[s] = "chat"
                   /\ messages'[s][Len(messages'[s])].role = "user"

\* C21, amended: the history holds as many assistant messages as model calls
\* returned what their response text parsed to, and as many user messages as
\* remote calls were made; an attempt that fails leaves the history as long
\* as it was when it failed: with the user message of the attempt when it
\* failed in the remote call or in parsing, with none when it failed before
\* (client, screen capture), and never with an assistant message.
C21_AssistantOnlyAfterParse == [](C21_State) /\ [][C21_Step]_vars

\* in a later iteration the screen capture failed, the retry was answered
\* and its answer parsed
C21_Witness ==
    /\ pc[1] = "exec"
    /\ loop_count[1] >= 1
    /\ Len(failed[1]) = 1
    /\ failed[1][1].how = "capture"
    /\ operations[1].kind = "list"
    /\ CountRole(messages[1], "assistant") = loop_count[1] + 1
    /\ CountRole(messages[1], "user") = loop_count[1] + 1

====
